---- MODULE Spec2Model ----
(***************************************************************************)
(* Model of server.js: an Express application keeping a product catalogue  *)
(* in the module-level array `products`.  One request is handled per step  *)
(* (Node runs the synchronous middleware chain of a request to completion).*)
(* JavaScript values are tagged records, strings are sequences of          *)
(* one-character strings so that toLowerCase, trim, split, includes and    *)
(* parseInt are computed character by character.                           *)
(***************************************************************************)
EXTENDS Integers, Sequences, FiniteSets, TLC

VARIABLES products, issued, removed, req, res, steps, console, nreq

vars == <<products, issued, removed, req, res, steps, console, nreq>>

(***************************************************************************)
(* Bounds of the model.                                                    *)
(***************************************************************************)
MaxRequests == 4
MaxUuids == 2
MaxFilterRequests == 2
MaxListRequests == 2

(***************************************************************************)
(* JavaScript values.                                                      *)
(***************************************************************************)
Undef == [t |-> "undefined", b |-> FALSE, n |-> 0, s |-> <<>>]
Null == [t |-> "object", b |-> FALSE, n |-> 0, s |-> <<>>]
Bool(x) == [t |-> "boolean", b |-> x, n |-> 0, s |-> <<>>]
Num(x) == [t |-> "number", b |-> FALSE, n |-> x, s |-> <<>>]
Str(x) == [t |-> "string", b |-> FALSE, n |-> 0, s |-> x]

typeof(v) == v.t

\* ToBoolean: undefined, null, false, 0 and "" are falsy.
Truthy(v) ==
    CASE v.t = "boolean" -> v.b
      [] v.t = "number" -> v.n # 0
      [] v.t = "string" -> v.s # <<>>
      [] OTHER -> FALSE

\* a || b
Or(a, b) == IF Truthy(a) THEN a ELSE b

(***************************************************************************)
(* String.prototype functions, on sequences of characters.                 *)
(***************************************************************************)
UpperChars == <<"A", "B", "C", "D", "E", "F", "G", "H", "I", "J", "K", "L", "M",
                "N", "O", "P", "Q", "R", "S", "T", "U", "V", "W", "X", "Y", "Z">>
LowerChars == <<"a", "b", "c", "d", "e", "f", "g", "h", "i", "j", "k", "l", "m",
                "n", "o", "p", "q", "r", "s", "t", "u", "v", "w", "x", "y", "z">>

UpperSet == {UpperChars[k] : k \in DOMAIN UpperChars}
LowerOf == [c \in UpperSet |-> LowerChars[CHOOSE k \in DOMAIN UpperChars : UpperChars[k] = c]]

lowerChar(c) == IF c \in UpperSet THEN LowerOf[c] ELSE c

toLowerCase(s) == [i \in 1..Len(s) |-> lowerChar(s[i])]

isSpace(c) == c = " "

trim(s) ==
    IF \A i \in DOMAIN s : isSpace(s[i]) THEN <<>>
    ELSE LET first == CHOOSE i \in DOMAIN s :
                          ~isSpace(s[i]) /\ \A j \in 1..(i - 1) : isSpace(s[j])
             last == CHOOSE i \in DOMAIN s :
                          ~isSpace(s[i]) /\ \A j \in (i + 1)..Len(s) : isSpace(s[j])
         IN SubSeq(s, first, last)

includes(s, sub) ==
    \E i \in 0..(Len(s) - Len(sub)) : SubSeq(s, i + 1, i + Len(sub)) = sub

\* s.split(' ')[1]: the text between the first space and the next one (or
\* the end of s); undefined when s holds no space.
splitSecond(s) ==
    LET spaces == {i \in DOMAIN s : isSpace(s[i])}
    IN IF spaces = {} THEN Undef
       ELSE LET p1 == CHOOSE i \in spaces : \A j \in spaces : i <= j
                rest == {i \in spaces : i > p1}
                p2 == IF rest = {} THEN Len(s) + 1
                      ELSE CHOOSE i \in rest : \A j \in rest : i <= j
            IN Str(SubSeq(s, p1 + 1, p2 - 1))

Digits == <<"0", "1", "2", "3", "4", "5", "6", "7", "8", "9">>
isDigit(c) == \E k \in DOMAIN Digits : Digits[k] = c
digitValue(c) == (CHOOSE k \in DOMAIN Digits : Digits[k] = c) - 1

RECURSIVE digitsValue(_)
digitsValue(ds) ==
    IF ds = <<>> THEN 0
    ELSE 10 * digitsValue(SubSeq(ds, 1, Len(ds) - 1)) + digitValue(ds[Len(ds)])

\* parseInt(v): skip leading white space, read an optional sign and the
\* longest run of decimal digits; NaN when there is no digit (or v is
\* undefined, whose string form "undefined" starts with no digit).
parseInt(v) ==
    IF v.t # "string" THEN [nan |-> TRUE, n |-> 0]
    ELSE LET s0 == v.s
             lead == IF \A i \in DOMAIN s0 : isSpace(s0[i]) THEN Len(s0)
                     ELSE (CHOOSE i \in DOMAIN s0 :
                              ~isSpace(s0[i]) /\ \A j \in 1..(i - 1) : isSpace(s0[j])) - 1
             s1 == SubSeq(s0, lead + 1, Len(s0))
             neg == s1 # <<>> /\ s1[1] = "-"
             signed == s1 # <<>> /\ s1[1] \in {"-", "+"}
             s2 == IF signed THEN Tail(s1) ELSE s1
             cnt == IF \A i \in DOMAIN s2 : isDigit(s2[i]) THEN Len(s2)
                    ELSE (CHOOSE i \in DOMAIN s2 :
                              ~isDigit(s2[i]) /\ \A j \in 1..(i - 1) : isDigit(s2[j])) - 1
             mag == digitsValue(SubSeq(s2, 1, cnt))
         IN IF cnt = 0 THEN [nan |-> TRUE, n |-> 0]
            ELSE [nan |-> FALSE, n |-> IF neg THEN 0 - mag ELSE mag]

\* parseInt(v) || d
parseIntOr(v, d) ==
    LET p == parseInt(v) IN IF p.nan \/ p.n = 0 THEN d ELSE p.n

\* Array.prototype.slice(start, end): negative indexes count from the end.
slice(a, start, end) ==
    LET len == Len(a)
        rel(k) == IF k < 0 THEN (IF len + k < 0 THEN 0 ELSE len + k)
                  ELSE (IF k > len THEN len ELSE k)
    IN SubSeq(a, rel(start) + 1, rel(end))

(***************************************************************************)
(* The in-memory products database and its three seed records.             *)
(***************************************************************************)
Product(id, name, description, price, category, inStock) ==
    [id |-> id, name |-> name, description |-> description, price |-> price,
     category |-> category, inStock |-> inStock]

Laptop ==
    Product("1", Str(<<"L", "a", "p", "t", "o", "p">>),
            Str(<<"H", "i", "g", "h", "-", "p", "e", "r", "f", "o", "r", "m", "a", "n", "c", "e", " ", "l", "a", "p", "t", "o", "p", " ", "w", "i", "t", "h", " ", "1", "6", "G", "B", " ", "R", "A", "M">>),
            Num(1200), Str(<<"e", "l", "e", "c", "t", "r", "o", "n", "i", "c", "s">>), Bool(TRUE))

Smartphone ==
    Product("2", Str(<<"S", "m", "a", "r", "t", "p", "h", "o", "n", "e">>),
            Str(<<"L", "a", "t", "e", "s", "t", " ", "m", "o", "d", "e", "l", " ", "w", "i", "t", "h", " ", "1", "2", "8", "G", "B", " ", "s", "t", "o", "r", "a", "g", "e">>),
            Num(800), Str(<<"e", "l", "e", "c", "t", "r", "o", "n", "i", "c", "s">>), Bool(TRUE))

CoffeeMaker ==
    Product("3", Str(<<"C", "o", "f", "f", "e", "e", " ", "M", "a", "k", "e", "r">>),
            Str(<<"P", "r", "o", "g", "r", "a", "m", "m", "a", "b", "l", "e", " ", "c", "o", "f", "f", "e", "e", " ", "m", "a", "k", "e", "r", " ", "w", "i", "t", "h", " ", "t", "i", "m", "e", "r">>),
            Num(50), Str(<<"k", "i", "t", "c", "h", "e", "n">>), Bool(FALSE))

SeedProducts == <<Laptop, Smartphone, CoffeeMaker>>

SeedIds == {SeedProducts[i].id : i \in DOMAIN SeedProducts}

\* uuidv4() draws a random identifier; the pool is the identifiers it can
\* return here, and it never returns one twice.
UuidNames == <<"u1", "u2", "u3", "u4", "u5", "u6">>
UuidPool == {UuidNames[i] : i \in 1..MaxUuids}
uuidv4(used) == UuidPool \ used

\* products.find(p => p.id === productId) / findIndex: 0 stands for "none".
findIndex(store, productId) ==
    IF \E i \in DOMAIN store : store[i].id = productId
    THEN CHOOSE i \in DOMAIN store :
             store[i].id = productId /\ \A j \in 1..(i - 1) : store[j].id # productId
    ELSE 0

\* Mutant of nameExists: the names are compared as they are written.
nameExistsExact(store, name) ==
    \E i \in DOMAIN store : store[i].name.s = name.s

\* products.find(p => p.name.toLowerCase() === name.toLowerCase())
nameExists(store, name) ==
    \E i \in DOMAIN store : toLowerCase(store[i].name.s) = toLowerCase(name.s)

\* products.find(p => p.name.toLowerCase() === name.toLowerCase() && p.id !== productId)
nameExistsElsewhere(store, name, productId) ==
    \E i \in DOMAIN store :
        /\ toLowerCase(store[i].name.s) = toLowerCase(name.s)
        /\ store[i].id # productId

\* products.push(newProduct)
push(store, p) == Append(store, p)

\* Mutant of splice: splice(productIndex) without a count removes the rest too.
spliceRest(store, idx) == SubSeq(store, 1, idx - 1)

\* products.splice(productIndex, 1)
splice(store, idx) == SubSeq(store, 1, idx - 1) \o SubSeq(store, idx + 1, Len(store))

\* products[productIndex] = updatedProduct
replaceAt(store, idx, p) == [store EXCEPT ![idx] = p]

(***************************************************************************)
(* Responses.  product and list hold zero or one element.                  *)
(***************************************************************************)
Response(status, error, message, product, list) ==
    [status |-> status, error |-> error, message |-> message,
     product |-> product, list |-> list]

ErrorResponse(status, error) == Response(status, error, "", <<>>, <<>>)

NoResponse == Response(0, "", "", <<>>, <<>>)

(***************************************************************************)
(* Middleware.                                                             *)
(***************************************************************************)
SecretToken == <<"s", "e", "c", "r", "e", "t", "-", "t", "o", "k", "e", "n">>

\* authMiddleware: TRUE when it calls next(), FALSE when it answers 401.
authMiddleware(r) ==
    LET authHeader == r.authorization
        token == IF Truthy(authHeader) THEN splitSecond(authHeader.s) ELSE authHeader
    IN token = Str(SecretToken)

Unauthorized == ErrorResponse(401, "Unauthorized: Invalid or missing token")

NameMessage == "Name is required and must be a non-empty string"
PriceMessage == "Price is required and must be a non-negative number"
CategoryMessage == "Category is required and must be a non-empty string"

\* Mutant of validateProduct: the sign of the price is not checked.
validateProductUnsigned(body) ==
    LET name == body.name
        price == body.price
        category == body.category
    IN IF ~Truthy(name) \/ typeof(name) # "string" \/ trim(name.s) = <<>>
       THEN NameMessage
       ELSE IF price = Undef \/ typeof(price) # "number"
       THEN PriceMessage
       ELSE IF ~Truthy(category) \/ typeof(category) # "string" \/ trim(category.s) = <<>>
       THEN CategoryMessage
       ELSE ""

\* validateProduct: the message of the 400 it answers, or "" when it calls next().
validateProduct(body) ==
    LET name == body.name
        price == body.price
        category == body.category
    IN IF ~Truthy(name) \/ typeof(name) # "string" \/ trim(name.s) = <<>>
       THEN NameMessage
       ELSE IF price = Undef \/ typeof(price) # "number" \/ price.n < 0
       THEN PriceMessage
       ELSE IF ~Truthy(category) \/ typeof(category) # "string" \/ trim(category.s) = <<>>
       THEN CategoryMessage
       ELSE ""

\* loggingMiddleware: the line it writes; the clock is the request's ordinal.
logLine(r, now) == [timestamp |-> now, method |-> r.method, path |-> r.path, id |-> r.id]

\* errorHandler: console.error(err.stack)
errorLine(r, now) == [timestamp |-> now, method |-> "console.error", path |-> "err.stack", id |-> ""]

(***************************************************************************)
(* Route handlers, as functions of the store and the request.              *)
(***************************************************************************)
\* GET /api/products: the product matches the search text.  Evaluating it
\* throws a TypeError when the name does not match and the description has
\* no toLowerCase method (it is not a string).
matchesSearch(p, search) ==
    \/ includes(toLowerCase(p.name.s), toLowerCase(search.s))
    \/ includes(toLowerCase(p.description.s), toLowerCase(search.s))

searchThrows(store, search) ==
    \E i \in DOMAIN store :
        /\ ~includes(toLowerCase(store[i].name.s), toLowerCase(search.s))
        /\ typeof(store[i].description) # "string"

filterProducts(store, query) ==
    LET bySearch(p) == matchesSearch(p, query.search)
        byCategory(p) == toLowerCase(p.category.s) = toLowerCase(query.category.s)
        stockValue == Bool(query.inStock = Str(<<"t", "r", "u", "e">>))
        byStock(p) == p.inStock = stockValue
        f1 == IF Truthy(query.search) THEN SelectSeq(store, bySearch) ELSE store
        f2 == IF Truthy(query.category) THEN SelectSeq(f1, byCategory) ELSE f1
    IN IF query.inStock # Undef THEN SelectSeq(f2, byStock) ELSE f2

paginate(filteredProducts, query) ==
    LET page == parseIntOr(query.page, 1)
        limit == parseIntOr(query.limit, 10)
        startIndex == (page - 1) * limit
        endIndex == page * limit
    IN [next |-> IF endIndex < Len(filteredProducts)
                 THEN <<[page |-> page + 1, limit |-> limit]>> ELSE <<>>,
        previous |-> IF startIndex > 0
                     THEN <<[page |-> page - 1, limit |-> limit]>> ELSE <<>>,
        products |-> slice(filteredProducts, startIndex, endIndex),
        total |-> Len(filteredProducts),
        page |-> page,
        limit |-> limit]

listProducts(store, query) ==
    IF Truthy(query.search) /\ searchThrows(store, query.search)
    THEN ErrorResponse(500, "Failed to retrieve products")
    ELSE Response(200, "", "", <<>>, <<paginate(filterProducts(store, query), query)>>)

\* GET /api/products/:id
getProduct(store, productId) ==
    LET idx == findIndex(store, productId)
    IN IF idx = 0 THEN ErrorResponse(404, "Product not found")
       ELSE Response(200, "", "", <<store[idx]>>, <<>>)

\* POST /api/products: the record built from the body and a fresh id.
newProduct(body, id) ==
    Product(id, body.name, Or(body.description, Str(<<>>)), body.price, body.category,
            IF body.inStock # Undef THEN body.inStock ELSE Bool(TRUE))

\* PUT /api/products/:id: the record that replaces `old`.
updatedProduct(body, productId, old) ==
    Product(productId, body.name, Or(body.description, Str(<<>>)), body.price,
            body.category,
            IF body.inStock # Undef THEN body.inStock ELSE old.inStock)

Conflict == ErrorResponse(409, "Product with this name already exists")
NotFound == ErrorResponse(404, "Product not found")

(***************************************************************************)
(* The application: app.use(bodyParser.json()), app.use(loggingMiddleware),*)
(* the routes in registration order, the '*' handler and errorHandler.     *)
(* Every action handles one request r to completion; steps is the order in *)
(* which the middleware ran for it and console what was written for it.    *)
(***************************************************************************)
\* No request is being handled.
NoRequest ==
    [method |-> "", path |-> "", id |-> "", authorization |-> Undef, parsable |-> TRUE,
     body |-> [name |-> Undef, description |-> Undef, price |-> Undef,
               category |-> Undef, inStock |-> Undef],
     query |-> [search |-> Undef, category |-> Undef, inStock |-> Undef,
                page |-> Undef, limit |-> Undef]]

Init ==
    /\ products = SeedProducts
    /\ issued = {}
    /\ removed = {}
    /\ req = NoRequest
    /\ res = NoResponse
    /\ steps = <<>>
    /\ console = <<>>
    /\ nreq = 0

Parsed == <<"bodyParser.json", "loggingMiddleware">>

\* The request was parsed and logged, ran `chain` and was answered `out`.
Answer(r, chain, out) ==
    /\ req' = r
    /\ res' = out
    /\ steps' = Parsed \o chain
    /\ console' = <<logLine(r, nreq)>>
    /\ nreq' = nreq + 1

\* bodyParser.json() fails on the body: next(err) skips to errorHandler.
BodyParseError(r) ==
    /\ ~r.parsable
    /\ req' = r
    /\ res' = ErrorResponse(500, "Something went wrong!")
    /\ steps' = <<"bodyParser.json", "errorHandler">>
    /\ console' = <<errorLine(r, nreq)>>
    /\ nreq' = nreq + 1
    /\ UNCHANGED <<products, issued, removed>>

Root(r) ==
    /\ r.parsable /\ r.method = "GET" /\ r.path = "/"
    /\ Answer(r, <<"root">>, Response(200, "", "Product API is running!", <<>>, <<>>))
    /\ UNCHANGED <<products, issued, removed>>

ListProducts(r) ==
    /\ r.parsable /\ r.method = "GET" /\ r.path = "/api/products"
    /\ Answer(r, <<"listProducts">>, listProducts(products, r.query))
    /\ UNCHANGED <<products, issued, removed>>

GetProduct(r) ==
    /\ r.parsable /\ r.method = "GET" /\ r.path = "/api/products/:id"
    /\ Answer(r, <<"getProduct">>, getProduct(products, r.id))
    /\ UNCHANGED <<products, issued, removed>>

CreateProduct(r) ==
    /\ r.parsable /\ r.method = "POST" /\ r.path = "/api/products"
    /\ IF ~authMiddleware(r)
       THEN /\ Answer(r, <<"authMiddleware">>, Unauthorized)
            /\ UNCHANGED <<products, issued, removed>>
       ELSE IF validateProduct(r.body) # ""
       THEN /\ Answer(r, <<"authMiddleware", "validateProduct">>,
                      ErrorResponse(400, validateProduct(r.body)))
            /\ UNCHANGED <<products, issued, removed>>
       ELSE IF nameExists(products, r.body.name)
       THEN /\ Answer(r, <<"authMiddleware", "validateProduct", "createProduct">>, Conflict)
            /\ UNCHANGED <<products, issued, removed>>
       ELSE \E id \in uuidv4(issued) :
            /\ Answer(r, <<"authMiddleware", "validateProduct", "createProduct">>,
                      Response(201, "", "", <<newProduct(r.body, id)>>, <<>>))
            /\ products' = push(products, newProduct(r.body, id))
            /\ issued' = issued \cup {id}
            /\ UNCHANGED removed

UpdateProduct(r) ==
    /\ r.parsable /\ r.method = "PUT" /\ r.path = "/api/products/:id"
    /\ LET productIndex == findIndex(products, r.id)
           chain == <<"authMiddleware", "validateProduct", "updateProduct">>
       IN IF ~authMiddleware(r)
          THEN /\ Answer(r, <<"authMiddleware">>, Unauthorized)
               /\ UNCHANGED <<products, issued, removed>>
          ELSE IF validateProduct(r.body) # ""
          THEN /\ Answer(r, <<"authMiddleware", "validateProduct">>,
                         ErrorResponse(400, validateProduct(r.body)))
               /\ UNCHANGED <<products, issued, removed>>
          ELSE IF productIndex = 0
          THEN /\ Answer(r, chain, NotFound)
               /\ UNCHANGED <<products, issued, removed>>
          ELSE IF nameExistsElsewhere(products, r.body.name, r.id)
          THEN /\ Answer(r, chain, Conflict)
               /\ UNCHANGED <<products, issued, removed>>
          ELSE LET p == updatedProduct(r.body, r.id, products[productIndex])
               IN /\ Answer(r, chain, Response(200, "", "", <<p>>, <<>>))
                  /\ products' = replaceAt(products, productIndex, p)
                  /\ UNCHANGED <<issued, removed>>

DeleteProduct(r) ==
    /\ r.parsable /\ r.method = "DELETE" /\ r.path = "/api/products/:id"
    /\ LET productIndex == findIndex(products, r.id)
       IN IF ~authMiddleware(r)
          THEN /\ Answer(r, <<"authMiddleware">>, Unauthorized)
               /\ UNCHANGED <<products, issued, removed>>
          ELSE IF productIndex = 0
          THEN /\ Answer(r, <<"authMiddleware", "deleteProduct">>, NotFound)
               /\ UNCHANGED <<products, issued, removed>>
          ELSE /\ Answer(r, <<"authMiddleware", "deleteProduct">>,
                         Response(200, "", "Product deleted successfully",
                                  <<products[productIndex]>>, <<>>))
               /\ products' = splice(products, productIndex)
               /\ removed' = removed \cup {r.id}
               /\ UNCHANGED issued

Routes ==
    {<<"GET", "/">>, <<"GET", "/api/products">>, <<"GET", "/api/products/:id">>,
     <<"POST", "/api/products">>, <<"PUT", "/api/products/:id">>,
     <<"DELETE", "/api/products/:id">>}

\* app.use('*', ...): no route matched.
RouteNotFound(r) ==
    /\ r.parsable /\ <<r.method, r.path>> \notin Routes
    /\ Answer(r, <<"notFound">>, ErrorResponse(404, "Route not found"))
    /\ UNCHANGED <<products, issued, removed>>

\* The response has been written: the request and response objects are gone
\* and the server waits for the next request.
Finished ==
    /\ req # NoRequest
    /\ req' = NoRequest
    /\ res' = NoResponse
    /\ steps' = <<>>
    /\ console' = <<>>
    /\ UNCHANGED <<products, issued, removed, nreq>>

(***************************************************************************)
(* Requests.                                                               *)
(***************************************************************************)
Request(method, path, id, authorization, parsable, body, query) ==
    [method |-> method, path |-> path, id |-> id, authorization |-> authorization,
     parsable |-> parsable, body |-> body, query |-> query]

Body(name, description, price, category, inStock) ==
    [name |-> name, description |-> description, price |-> price,
     category |-> category, inStock |-> inStock]

Query(search, category, inStock, page, limit) ==
    [search |-> search, category |-> category, inStock |-> inStock,
     page |-> page, limit |-> limit]

EmptyBody == Body(Undef, Undef, Undef, Undef, Undef)
EmptyQuery == Query(Undef, Undef, Undef, Undef, Undef)

BearerSecret == Str(<<"B", "e", "a", "r", "e", "r", " ", "s", "e", "c", "r", "e", "t", "-", "t", "o", "k", "e", "n">>)

PathIds == {"1", "3", "0"} \cup UuidPool

\* Requests of the catalogue's life cycle: creates, updates, deletes and
\* reads, with and without the token.
LifeBodies ==
    {Body(name, description, Num(10), Str(<<"o", "f", "f", "i", "c", "e">>), inStock) :
        name \in {Str(<<"L", "A", "P", "T", "O", "P">>), Str(<<"D", "e", "s", "k">>)},
        description \in {Undef, Num(0), Num(42), Str(<<"O", "a", "k">>)},
        inStock \in {Undef, Bool(FALSE)}}

Requests ==
    LET Auths == {BearerSecret, Undef}
    IN  {Request("POST", "/api/products", "", a, TRUE, b, EmptyQuery) :
            a \in Auths, b \in LifeBodies}
        \cup {Request("PUT", "/api/products/:id", id, a, TRUE, b, EmptyQuery) :
            id \in PathIds, a \in Auths, b \in LifeBodies}
        \cup {Request("DELETE", "/api/products/:id", id, a, TRUE, EmptyBody, EmptyQuery) :
            id \in PathIds, a \in Auths}
        \cup {Request("GET", "/api/products/:id", id, Undef, TRUE, EmptyBody, EmptyQuery) :
            id \in PathIds}
        \cup {Request("GET", "/api/products", "", Undef, TRUE, EmptyBody, EmptyQuery),
              Request("GET", "/", "", Undef, TRUE, EmptyBody, EmptyQuery),
              Request("DELETE", "/api/products", "", BearerSecret, TRUE, EmptyBody, EmptyQuery),
              Request("POST", "/api/products", "", BearerSecret, FALSE, EmptyBody, EmptyQuery)}

\* The requests that can arrive: any of `all` while the server is idle and
\* fewer than `max` requests have been handled.
Arriving(all, max) == IF req = NoRequest /\ nreq < max THEN all ELSE {}

Next ==
    \/ Finished
    \/ \E r \in Arriving(Requests, MaxRequests) : BodyParseError(r)
    \/ \E r \in Arriving(Requests, MaxRequests) : Root(r)
    \/ \E r \in Arriving(Requests, MaxRequests) : ListProducts(r)
    \/ \E r \in Arriving(Requests, MaxRequests) : GetProduct(r)
    \/ \E r \in Arriving(Requests, MaxRequests) : CreateProduct(r)
    \/ \E r \in Arriving(Requests, MaxRequests) : UpdateProduct(r)
    \/ \E r \in Arriving(Requests, MaxRequests) : DeleteProduct(r)
    \/ \E r \in Arriving(Requests, MaxRequests) : RouteNotFound(r)

Spec == Init /\ [][Next]_vars

\* Requests that exercise the filters: every shape of Authorization header
\* and of payload, on every route, with bodies that parse and bodies that
\* do not.
FilterAuths ==
    {Undef, BearerSecret, Str(<<"B", "e", "a", "r", "e", "r", " ", "w", "r", "o", "n", "g">>), Str(<<"s", "e", "c", "r", "e", "t", "-", "t", "o", "k", "e", "n">>),
     Str(<<"B", "a", "s", "i", "c", " ", "s", "e", "c", "r", "e", "t", "-", "t", "o", "k", "e", "n">>), Str(<<"B", "e", "a", "r", "e", "r", " ", " ", "s", "e", "c", "r", "e", "t", "-", "t", "o", "k", "e", "n">>)}

FilterBodies ==
    {Body(name, Undef, price, category, Undef) :
        name \in {Undef, Num(7), Str(<<>>), Str(<<" ">>), Str(<<"L", "A", "P", "T", "O", "P">>), Str(<<"D", "e", "s", "k">>)},
        price \in {Undef, Null, Str(<<"5">>), Num(-5), Num(0), Num(10)},
        category \in {Undef, Num(1), Str(<<" ">>), Str(<<"o", "f", "f", "i", "c", "e">>)}}

FilterRequests ==
    {Request("POST", "/api/products", "", a, TRUE, b, EmptyQuery) :
        a \in FilterAuths, b \in FilterBodies}
    \cup {Request("PUT", "/api/products/:id", id, a, TRUE, b, EmptyQuery) :
        id \in PathIds, a \in FilterAuths, b \in FilterBodies}
    \cup {Request("DELETE", "/api/products/:id", id, a, TRUE, EmptyBody, EmptyQuery) :
        id \in PathIds, a \in FilterAuths}
    \cup {Request(m[1], m[2], "1", a, FALSE, EmptyBody, EmptyQuery) :
        m \in Routes, a \in FilterAuths}
    \cup {Request("GET", "/api/products/:id", id, Undef, TRUE, EmptyBody, EmptyQuery) :
        id \in PathIds}
    \cup {Request("GET", "/api/products", "", Undef, TRUE, EmptyBody, EmptyQuery),
          Request("GET", "/", "", Undef, TRUE, EmptyBody, EmptyQuery),
          Request("PATCH", "/api/products/:id", "1", BearerSecret, TRUE, EmptyBody, EmptyQuery),
          Request("GET", "/nowhere", "", Undef, TRUE, EmptyBody, EmptyQuery)}

NextFilters ==
    \/ Finished
    \/ \E r \in Arriving(FilterRequests, MaxFilterRequests) : BodyParseError(r)
    \/ \E r \in Arriving(FilterRequests, MaxFilterRequests) : Root(r)
    \/ \E r \in Arriving(FilterRequests, MaxFilterRequests) : ListProducts(r)
    \/ \E r \in Arriving(FilterRequests, MaxFilterRequests) : GetProduct(r)
    \/ \E r \in Arriving(FilterRequests, MaxFilterRequests) : CreateProduct(r)
    \/ \E r \in Arriving(FilterRequests, MaxFilterRequests) : UpdateProduct(r)
    \/ \E r \in Arriving(FilterRequests, MaxFilterRequests) : DeleteProduct(r)
    \/ \E r \in Arriving(FilterRequests, MaxFilterRequests) : RouteNotFound(r)

SpecFilters == Init /\ [][NextFilters]_vars

\* Requests that exercise the list operation: every combination of the
\* query parameters, over the stores a few creates and deletes produce.
ListQueries ==
    {Query(search, category, inStock, page, limit) :
        search \in {Undef, Str(<<>>), Str(<<"L", "A", "P">>), Str(<<"t", "i", "m", "e", "r">>), Str(<<"z", "z">>)},
        category \in {Undef, Str(<<"K", "I", "T", "C", "H", "E", "N">>), Str(<<"e", "l", "e", "c", "t", "r", "o", "n", "i", "c", "s">>), Str(<<"t", "o", "y", "s">>)},
        inStock \in {Undef, Str(<<"t", "r", "u", "e">>), Str(<<"f", "a", "l", "s", "e">>), Str(<<>>)},
        page \in {Undef, Str(<<"a", "b", "c">>), Str(<<"0">>), Str(<<"1">>), Str(<<"2">>),
                  Str(<<"3">>), Str(<<"-", "1">>), Str(<<"2", "x">>)},
        limit \in {Undef, Str(<<"x">>), Str(<<"1">>), Str(<<"2">>), Str(<<"-", "2">>)}}

ListBodies ==
    {Body(Str(<<"D", "e", "s", "k">>), description, Num(10), category, Bool(TRUE)) :
        description \in {Str(<<"O", "a", "k", " ", "t", "i", "m", "e", "r">>), Num(42)},
        category \in {Str(<<"o", "f", "f", "i", "c", "e">>), Str(<<"K", "i", "t", "c", "h", "e", "n">>)}}

ListRequests ==
    {Request("GET", "/api/products", "", Undef, TRUE, EmptyBody, q) : q \in ListQueries}
    \cup {Request("POST", "/api/products", "", BearerSecret, TRUE, b, EmptyQuery) :
        b \in ListBodies}
    \cup {Request("PUT", "/api/products/:id", "3", BearerSecret, TRUE, b, EmptyQuery) :
        b \in ListBodies}
    \cup {Request("DELETE", "/api/products/:id", id, BearerSecret, TRUE, EmptyBody, EmptyQuery) :
        id \in PathIds}
    \cup {Request("GET", "/api/products/:id", "1", Undef, TRUE, EmptyBody, EmptyQuery),
          Request("GET", "/", "", Undef, TRUE, EmptyBody, EmptyQuery),
          Request("GET", "/api", "", Undef, TRUE, EmptyBody, EmptyQuery),
          Request("GET", "/api/products", "", Undef, FALSE, EmptyBody, EmptyQuery)}

NextList ==
    \/ Finished
    \/ \E r \in Arriving(ListRequests, MaxListRequests) : BodyParseError(r)
    \/ \E r \in Arriving(ListRequests, MaxListRequests) : Root(r)
    \/ \E r \in Arriving(ListRequests, MaxListRequests) : ListProducts(r)
    \/ \E r \in Arriving(ListRequests, MaxListRequests) : GetProduct(r)
    \/ \E r \in Arriving(ListRequests, MaxListRequests) : CreateProduct(r)
    \/ \E r \in Arriving(ListRequests, MaxListRequests) : UpdateProduct(r)
    \/ \E r \in Arriving(ListRequests, MaxListRequests) : DeleteProduct(r)
    \/ \E r \in Arriving(ListRequests, MaxListRequests) : RouteNotFound(r)

SpecList == Init /\ [][NextList]_vars

(***************************************************************************)
(* Vocabulary of the properties.                                           *)
(***************************************************************************)
IsCreate(r) == r.parsable /\ r.method = "POST" /\ r.path = "/api/products"
IsUpdate(r) == r.parsable /\ r.method = "PUT" /\ r.path = "/api/products/:id"
IsDelete(r) == r.parsable /\ r.method = "DELETE" /\ r.path = "/api/products/:id"
IsGet(r) == r.parsable /\ r.method = "GET" /\ r.path = "/api/products/:id"
IsList(r) == r.parsable /\ r.method = "GET" /\ r.path = "/api/products"

\* The validation rules, field by field.
NameOk(b) == b.name.t = "string" /\ \E i \in DOMAIN b.name.s : b.name.s[i] # " "
PriceOk(b) == b.price.t = "number" /\ b.price.n >= 0
CategoryOk(b) == b.category.t = "string" /\ \E i \in DOMAIN b.category.s : b.category.s[i] # " "
ValidPayload(b) == NameOk(b) /\ PriceOk(b) /\ CategoryOk(b)

SameNameIgnoringCase(a, b) ==
    Len(a.s) = Len(b.s) /\ \A k \in DOMAIN a.s : lowerChar(a.s[k]) = lowerChar(b.s[k])

IdsOf(store) == {store[i].id : i \in DOMAIN store}

\* The record a create or an update is to store for body b: description and
\* inStock are the payload's, or the given defaults when absent.
Expected(b, id, stockDefault) ==
    Product(id, b.name, IF b.description = Undef THEN Str(<<>>) ELSE b.description,
            b.price, b.category, IF b.inStock = Undef THEN stockDefault ELSE b.inStock)

(***************************************************************************)
(* C1: no two distinct products of the store have names that are equal     *)
(* when compared case-insensitively, in every reachable state; and a       *)
(* create that passed the filters and whose name differs only by case from *)
(* an existing product's name is answered 409 and inserts nothing.         *)
(***************************************************************************)
NoDuplicateNames ==
    \A i, j \in DOMAIN products :
        i < j => ~SameNameIgnoringCase(products[i].name, products[j].name)

CaseClash(r, store) ==
    /\ IsCreate(r) /\ authMiddleware(r) /\ ValidPayload(r.body)
    /\ \E i \in DOMAIN store :
           /\ store[i].name # r.body.name
           /\ SameNameIgnoringCase(store[i].name, r.body.name)

C1_UniqueNames ==
    [][/\ NoDuplicateNames /\ NoDuplicateNames'
       /\ CaseClash(req', products) => res' = Conflict /\ products' = products]_vars

C1_Witness ==
    /\ CaseClash(req, products)
    /\ res.status = 409
    /\ Len(products) > Len(SeedProducts)

(***************************************************************************)
(* C4: every product of the store satisfies the data model: unique id,     *)
(* name a non-empty string, description a string, price a non-negative     *)
(* number, category a non-empty string, inStock a boolean.                 *)
(***************************************************************************)
C4_DataModel ==
    /\ \A i, j \in DOMAIN products : i # j => products[i].id # products[j].id
    /\ \A i \in DOMAIN products :
           /\ products[i].name.t = "string" /\ products[i].name.s # <<>>
           /\ products[i].description.t = "string"
           /\ products[i].price.t = "number" /\ products[i].price.n >= 0
           /\ products[i].category.t = "string" /\ products[i].category.s # <<>>
           /\ products[i].inStock.t = "boolean"

(***************************************************************************)
(* C5: an authenticated create with a valid payload whose name conflicts   *)
(* with no product is answered 201 with a record that has the payload's    *)
(* name, price and category, the payload's description ("" when absent),   *)
(* the payload's inStock (true when absent) and an id no other product     *)
(* holds; a get-by-id on that id then returns this record.                 *)
(***************************************************************************)
CreateAccepted(r, store) ==
    /\ IsCreate(r) /\ authMiddleware(r) /\ ValidPayload(r.body)
    /\ \A i \in DOMAIN store : ~SameNameIgnoringCase(store[i].name, r.body.name)

C5_CreateThenGet ==
    [][CreateAccepted(req', products) =>
          /\ res'.status = 201
          /\ Len(res'.product) = 1
          /\ res'.product[1].id \notin IdsOf(products)
          /\ res'.product[1] = Expected(req'.body, res'.product[1].id, Bool(TRUE))
          /\ getProduct(products', res'.product[1].id)
                 = Response(200, "", "", res'.product, <<>>)]_vars

(***************************************************************************)
(* C6: a DELETE answered 200 returns the product stored under the id and   *)
(* leaves the other products in their order; from then on the id is in no  *)
(* product of the store and every get-by-id on it is answered 404          *)
(* "Product not found".                                                    *)
(***************************************************************************)
Without(store, id) ==
    LET other(p) == p.id # id IN SelectSeq(store, other)

C6_DeletedStaysDeleted ==
    [][/\ (IsDelete(req') /\ res'.status = 200) =>
              /\ \E i \in DOMAIN products :
                     products[i].id = req'.id /\ res'.product = <<products[i]>>
              /\ products' = Without(products, req'.id)
              /\ req'.id \in removed'
       /\ removed \subseteq removed'
       /\ removed' \cap IdsOf(products') = {}
       /\ (IsGet(req') /\ req'.id \in removed') => res' = NotFound]_vars

C6_Witness ==
    /\ IsGet(req) /\ req.id \in removed /\ req.id \in issued
    /\ res = NotFound
    /\ \E i \in DOMAIN products : products[i].id \in issued

(***************************************************************************)
(* C7: a successful update replaces exactly the record with the path id,   *)
(* in place: same id, name, price and category from the payload,           *)
(* description the payload's ("" when absent), inStock the payload's (the  *)
(* stored value when absent); nothing else changes; keeping the record's   *)
(* own name is no conflict.                                                *)
(***************************************************************************)
UpdateAccepted(r, store) ==
    /\ IsUpdate(r) /\ authMiddleware(r) /\ ValidPayload(r.body)
    /\ r.id \in IdsOf(store)
    /\ \A i \in DOMAIN store :
           store[i].id # r.id => ~SameNameIgnoringCase(store[i].name, r.body.name)

C7_UpdateReplaces ==
    [][UpdateAccepted(req', products) =>
          LET idx == CHOOSE i \in DOMAIN products : products[i].id = req'.id
              new == Expected(req'.body, req'.id, products[idx].inStock)
          IN /\ res' = Response(200, "", "", <<new>>, <<>>)
             /\ products' = [products EXCEPT ![idx] = new]]_vars

(***************************************************************************)
(* C2: a POST, PUT or DELETE on the products routes whose Authorization    *)
(* header is not `Bearer secret-token` (absent, another form, or another   *)
(* token) is answered 401 and leaves the store unchanged, whatever its     *)
(* body and path id.                                                       *)
(***************************************************************************)
C2_UnauthorizedRejected ==
    [][((IsCreate(req') \/ IsUpdate(req') \/ IsDelete(req'))
            /\ req'.authorization # BearerSecret)
          => res' = Unauthorized /\ products' = products]_vars

(***************************************************************************)
(* C3: an authenticated POST or PUT whose payload violates the validation  *)
(* rules is answered 400 with the message of the first violated field in   *)
(* the order name, price, category, and leaves the store unchanged,        *)
(* whether or not the path id exists or the name conflicts.                *)
(***************************************************************************)
FirstViolation(b) ==
    IF ~NameOk(b) THEN NameMessage
    ELSE IF ~PriceOk(b) THEN PriceMessage
    ELSE IF ~CategoryOk(b) THEN CategoryMessage
    ELSE ""

C3_InvalidRejected ==
    [][((IsCreate(req') \/ IsUpdate(req')) /\ authMiddleware(req')
            /\ ~ValidPayload(req'.body))
          => /\ res' = ErrorResponse(400, FirstViolation(req'.body))
             /\ res'.error # ""
             /\ products' = products]_vars

C3_Witness ==
    /\ IsUpdate(req) /\ authMiddleware(req)
    /\ req.id \notin IdsOf(products)
    /\ \E i \in DOMAIN products : SameNameIgnoringCase(products[i].name, req.body.name)
    /\ req.body.price = Num(-5) /\ req.body.category = Undef
    /\ res = ErrorResponse(400, PriceMessage)
    /\ products # SeedProducts

(***************************************************************************)
(* C10: for every request, whatever its method, path and body, exactly one *)
(* line with the method and the path is logged, the logging filter is the  *)
(* first step that runs for the request, and it is not the step that ends  *)
(* the request.                                                            *)
(***************************************************************************)
C10_LoggedFirst ==
    req # NoRequest =>
        /\ Len(console) = 1
        /\ console[1].method = req.method /\ console[1].path = req.path
        /\ steps[1] = "loggingMiddleware"
        /\ steps[Len(steps)] # "loggingMiddleware"

(***************************************************************************)
(* C8: the list response holds the elements of the filtered set at the     *)
(* 0-based positions i with (page-1)*limit <= i < page*limit, in order,    *)
(* total is the size of the filtered set, next = {page+1, limit} is        *)
(* present exactly when page*limit < total and previous = {page-1, limit}  *)
(* exactly when (page-1)*limit > 0; page and limit are the parsed query    *)
(* values, 1 and 10 when missing or not numeric.                           *)
(***************************************************************************)
NotNumeric(v) == v = Undef \/ \A i \in DOMAIN v.s : ~isDigit(v.s[i])

PageOf(f, page, limit) ==
    LET pos == {i \in 0..(Len(f) - 1) : (page - 1) * limit <= i /\ i < page * limit}
    IN IF pos = {} THEN <<>>
       ELSE LET lo == CHOOSE i \in pos : \A j \in pos : i <= j
            IN [k \in 1..Cardinality(pos) |-> f[lo + k]]

C8_Pagination ==
    (IsList(req) /\ res.status = 200) =>
        LET out == res.list[1]
            f == filterProducts(products, req.query)
        IN /\ NotNumeric(req.query.page) => out.page = 1
           /\ NotNumeric(req.query.limit) => out.limit = 10
           /\ out.total = Len(f)
           /\ out.next = IF out.page * out.limit < out.total
                         THEN <<[page |-> out.page + 1, limit |-> out.limit]>> ELSE <<>>
           /\ out.previous = IF (out.page - 1) * out.limit > 0
                             THEN <<[page |-> out.page - 1, limit |-> out.limit]>> ELSE <<>>
           /\ out.products = PageOf(f, out.page, out.limit)

(***************************************************************************)
(* C9: the list operation is answered 200, does not change the store, and  *)
(* its filtered set is exactly the products, in insertion order, that      *)
(* satisfy all supplied filters: name or description contains search       *)
(* case-insensitively, category equals the parameter case-insensitively,   *)
(* inStock equals (parameter = "true").                                    *)
(***************************************************************************)
ContainsIgnoringCase(v, text) ==
    v.t = "string" /\ includes(toLowerCase(v.s), toLowerCase(text.s))

Satisfies(p, q) ==
    /\ Truthy(q.search) =>
           ContainsIgnoringCase(p.name, q.search) \/ ContainsIgnoringCase(p.description, q.search)
    /\ Truthy(q.category) => SameNameIgnoringCase(p.category, q.category)
    /\ q.inStock # Undef => p.inStock = Bool(q.inStock = Str(<<"t", "r", "u", "e">>))

Matching(store, q) ==
    LET sat(p) == Satisfies(p, q) IN SelectSeq(store, sat)

C9_Filtering ==
    [][IsList(req') =>
          /\ res'.status = 200
          /\ products' = products
          /\ res'.list[1].total = Len(Matching(products, req'.query))
          /\ (req'.query.page = Undef /\ req'.query.limit = Undef)
                 => res'.list[1].products = Matching(products, req'.query)]_vars

====
